---------------------------- MODULE Spec2Model ----------------------------
(***************************************************************************)
(* A model of chesspp::board::Board (src/src/board/Board.hpp), of the one   *)
(* piece kind of the repository, piece::Rook, and of res::ResourceManager  *)
(* (src/src/res/ResourceManager.hpp).                                      *)
(*                                                                         *)
(* The header holds Board's data, Board::Piece with its registration       *)
(* primitives and Piece::move, the constructor, getInteraction, at and     *)
(* valid.  The bodies of Board::move, Board::capture, Board::update,       *)
(* Rook::calcTrajectory and Position_t are in files that are not part of   *)
(* the sources; they are modelled from the specification (sections 4.1,    *)
(* 4.3 and 8) and composed with the header's code that they call.          *)
(***************************************************************************)
EXTENDS Integers, Sequences, FiniteSets, Bags, TLC

VARIABLES
    config,         \* Board::config: board size and initial layout
    pieces,         \* Board::pieces: position key -> owned piece
    captures,       \* Board::captures: multimap, a bag of <<key, tile>>
    interactions,   \* Board::interactions: rule type -> instance
    res,            \* ResourceManager::res: (path key, type) -> owned resource
    last            \* the last call made and what it returned

vars == <<config, pieces, captures, interactions, res, last>>

---------------------------------------------------------------------------
(* Bounds of the model *)

\* Calls stop being made for a piece once it has made this many moves.
MaxMoves == 1

\* makeTrajectory stops being run on its own once the relation would hold
\* more than this many entries.
MaxEntries == 6

\* The layouts a board is constructed from to probe the factory name at
\* most this many slots.
MaxSlots == 2

\* The calcTrajectory of a derived class other than the rook makes at most
\* this many registration calls.
MaxHookCalls == 2

\* Requests that construct a resource stop being made once the manager
\* holds this many.
MaxResources == 3

---------------------------------------------------------------------------
(* Statements in sequence: v is computed, then F is applied to its value. *)

Then(v, F(_)) == CHOOSE r \in {F(x) : x \in {v}} : TRUE

---------------------------------------------------------------------------
(* Positions *)

\* Position_t: a pair of integral coordinates <<x, y>>.
Position_t(x, y) == <<x, y>>

\* Position_t::operator<, the order of the keys of Board::pieces.
PosLess(a, b) == a[1] < b[1] \/ (a[1] = b[1] /\ a[2] < b[2])

\* Position_t::isWithin(origin, size): origin <= pos < size on both axes.
IsWithin(pos, org, size) ==
    /\ org[1] <= pos[1] /\ pos[1] < size[1]
    /\ org[2] <= pos[2] /\ pos[2] < size[2]

\* Position_t::Origin().
Origin == Position_t(0, 0)

\* Board::valid with the width and the height in each other's place.
Valid_Transposed(pos) ==
    IsWithin(pos, Origin, Position_t(config.boardHeight, config.boardWidth))

\* Board::valid.
Valid(pos) ==
    IsWithin(pos, Origin, Position_t(config.boardWidth, config.boardHeight))

\* The positions of the board.
Squares == {p \in (0 .. config.boardWidth - 1) \X (0 .. config.boardHeight - 1) : TRUE}

\* util::Direction as used by the rook: North, East, South, West.
RookDirections == << <<0, -1>>, <<1, 0>>, <<0, 1>>, <<-1, 0>> >>

\* Position_t::move(direction, steps).
PosMove(pos, d, i) == Position_t(pos[1] + i * d[1], pos[2] + i * d[2])

---------------------------------------------------------------------------
(* The position table *)

\* Pieces_t::end(), and the null pointer that Board::at returns.
PiecesEnd == <<>>
NoPiece == [id |-> 0]

\* Pieces_t::find: the iterator (the node, named by its key) or end().
Find(pcs, pos) == IF pos \in DOMAIN pcs THEN pos ELSE PiecesEnd

\* Board::at.
At(pcs, pos) == IF Find(pcs, pos) = PiecesEnd THEN NoPiece ELSE pcs[pos]

\* Pieces_t::operator[] as a read: a key that is absent is inserted with a
\* null pointer.
Subscript(pcs, pos) == IF pos \in DOMAIN pcs THEN pcs ELSE (pos :> NoPiece) @@ pcs

\* Board::at without the test of find against end(): the table after it.
AtTable_NoFind(pcs, pos) == Subscript(pcs, pos)

\* Board::at: the table after the call; operator[] is reached for the keys
\* that find has found.
AtTable(pcs, pos) == IF Find(pcs, pos) = PiecesEnd THEN pcs ELSE Subscript(pcs, pos)

\* Pieces_t::erase(key).
Erase(pcs, pos) == [k \in DOMAIN pcs \ {pos} |-> pcs[k]] @@ <<>>

\* Pieces_t::operator[] assignment.
Put(pcs, pos, piece) == (pos :> piece) @@ pcs

\* The least key of a non-empty set of keys, in map order.
MinKey(S) == CHOOSE a \in S : \A b \in S : a = b \/ PosLess(a, b)

\* The keys of the map in iteration order (begin() .. end()).
RECURSIVE KeysInOrder(_)
KeysInOrder(S) ==
    IF S = {} THEN <<>> ELSE <<MinKey(S)>> \o KeysInOrder(S \ {MinKey(S)})

\* Piece::Piece: a piece as constructed.
NewPiece(id, pos, suit) ==
    [id |-> id, p |-> pos, s |-> suit, traj |-> {}, capt |-> {}, movenum |-> 0]

\* Piece::trajectory bound to the wrong set.
Trajectory_OfCapt(piece) == piece.capt

\* Piece::trajectory and Piece::captures, the public aliases of traj and capt.
Trajectory(piece) == piece.traj
Capturing(piece) == piece.capt

---------------------------------------------------------------------------
(* Piece: the registration primitives.  b is the board as the piece sees   *)
(* it, [pieces, captures]; key names the node that holds the piece.        *)

\* Piece::addTrajectory without the test of the tile.
AddTrajectory_NoFilter(b, key, tile) == [b EXCEPT !.pieces[key].traj = @ \cup {tile}]

\* Piece::addTrajectory.
AddTrajectory(b, key, tile) ==
    IF Valid(tile) THEN [b EXCEPT !.pieces[key].traj = @ \cup {tile}] ELSE b

\* Piece::removeTrajectory.
RemoveTrajectory(b, key, tile) == [b EXCEPT !.pieces[key].traj = @ \ {tile}]

\* Piece::addCapturing.
AddCapturing(b, key, tile) ==
    IF Valid(tile) THEN [b EXCEPT !.pieces[key].capt = @ \cup {tile}] ELSE b

\* Piece::removeCapturing.
RemoveCapturing(b, key, tile) == [b EXCEPT !.pieces[key].capt = @ \ {tile}]

\* Piece::addCapturable keyed by pieces.begin() instead of find(pos).
AddCapturable_AtBegin(b, key, tile) ==
    IF Valid(tile)
    THEN [b EXCEPT !.captures =
              @ (+) SetToBag({<<MinKey(DOMAIN b.pieces), tile>>})]
    ELSE b

\* Piece::addCapturable: the entry is keyed by pieces.find(pos).
AddCapturable(b, key, tile) ==
    IF Valid(tile)
    THEN [b EXCEPT !.captures =
              @ (+) SetToBag({<<Find(b.pieces, b.pieces[key].p), tile>>})]
    ELSE b

\* Piece::removeCapturable without the break: every entry of the piece with
\* that tile is erased.
RemoveCapturable_AllCopies(b, key, tile) ==
    LET e == <<Find(b.pieces, b.pieces[key].p), tile>>
        c == b.captures
    IN  [b EXCEPT !.captures = [x \in BagToSet(c) \ {e} |-> c[x]] @@ EmptyBag]

\* Piece::removeCapturable: erases the first entry of the piece with that tile.
RemoveCapturable(b, key, tile) ==
    LET e == <<Find(b.pieces, b.pieces[key].p), tile>>
    IN  IF BagIn(e, b.captures)
        THEN [b EXCEPT !.captures = @ (-) SetToBag({e})]
        ELSE b

---------------------------------------------------------------------------
(* Piece: the hooks and the rook's rule *)

\* A call of a virtual function of a piece, as an observer of the calls sees
\* it: the function, the piece, the position and the move count the piece
\* holds when the call begins, and the positions passed.
Event(name, piece, from, to) ==
    [ev |-> name, id |-> piece.id, p |-> piece.p, movenum |-> piece.movenum,
     from |-> from, to |-> to]

\* The call is appended to those made so far within the running operation.
Log(b, e) == [b EXCEPT !.log = Append(@, e)]

\* Piece::tick, the default: empty.
Tick(b, key, m) == Log(b, Event("tick", b.pieces[key], <<>>, m))

\* Piece::moveUpdate, the default: empty.
MoveUpdate(b, key, from, to) == Log(b, Event("moveUpdate", b.pieces[key], from, to))

\* One direction of the rook's rule: slide until the edge or a piece; an
\* empty tile is a trajectory, the first piece met is a capture when it is
\* of the other suit.
RECURSIVE Slide(_, _, _, _)
Slide(b, key, d, i) ==
    LET t == PosMove(b.pieces[key].p, d, i)
    IN  IF ~Valid(t) THEN b
        ELSE IF At(b.pieces, t) = NoPiece
             THEN Then(AddTrajectory(b, key, t), LAMBDA b1 :
                  Slide(b1, key, d, i + 1))
             ELSE IF At(b.pieces, t).s # b.pieces[key].s
                  THEN AddCapturing(b, key, t)
                  ELSE b

\* Rook::calcTrajectory: the four straight directions.
CalcTrajectory(b, key) ==
    Then(Slide(b, key, RookDirections[1], 1), LAMBDA b1 :
    Then(Slide(b1, key, RookDirections[2], 1), LAMBDA b2 :
    Then(Slide(b2, key, RookDirections[3], 1), LAMBDA b3 :
    Slide(b3, key, RookDirections[4], 1))))

\* Piece::makeTrajectory without the two clear() calls.
MakeTrajectory_NoClear(b, key) ==
    Then(Log(b, Event("makeTrajectory", b.pieces[key], <<>>, <<>>)), LAMBDA b0 :
    Then(AddCapturable(b0, key, b0.pieces[key].p), LAMBDA b2 :
    CalcTrajectory(b2, key)))

\* Piece::makeTrajectory.
MakeTrajectory(b, key) ==
    Then(Log(b, Event("makeTrajectory", b.pieces[key], <<>>, <<>>)), LAMBDA b0 :
    Then([b0 EXCEPT !.pieces[key].traj = {}, !.pieces[key].capt = {}], LAMBDA b1 :
    Then(AddCapturable(b1, key, b1.pieces[key].p), LAMBDA b2 :
    CalcTrajectory(b2, key))))

\* Piece::move without the assignment of the position.
PieceMove_KeepPos(b, key, to) ==
    Then(b.pieces[key].p, LAMBDA from :
    Then(MoveUpdate(b, key, from, to), LAMBDA b2 :
    Then([b2 EXCEPT !.pieces[key].movenum = @ + 1], LAMBDA b3 :
    MakeTrajectory(b3, key))))

\* Piece::move without the increment of the move count.
PieceMove_NoCount(b, key, to) ==
    Then(b.pieces[key].p, LAMBDA from :
    Then([b EXCEPT !.pieces[key].p = to], LAMBDA b1 :
    Then(MoveUpdate(b1, key, from, to), LAMBDA b2 :
    MakeTrajectory(b2, key))))

\* Piece::move counting the move before it calls moveUpdate.
PieceMove_CountFirst(b, key, to) ==
    Then(b.pieces[key].p, LAMBDA from :
    Then([b EXCEPT !.pieces[key].p = to], LAMBDA b1 :
    Then([b1 EXCEPT !.pieces[key].movenum = @ + 1], LAMBDA b2 :
    Then(MoveUpdate(b2, key, from, to), LAMBDA b3 :
    MakeTrajectory(b3, key)))))

\* Piece::move.
PieceMove(b, key, to) ==
    Then(b.pieces[key].p, LAMBDA from :
    Then([b EXCEPT !.pieces[key].p = to], LAMBDA b1 :
    Then(MoveUpdate(b1, key, from, to), LAMBDA b2 :
    Then([b2 EXCEPT !.pieces[key].movenum = @ + 1], LAMBDA b3 :
    MakeTrajectory(b3, key)))))

---------------------------------------------------------------------------
(* Board *)

\* The loop of the constructor: makeTrajectory for every piece, in order.
RECURSIVE MakeAll(_, _)
MakeAll(b, keys) ==
    IF keys = <<>> THEN b
    ELSE Then(MakeTrajectory(b, Head(keys)), LAMBDA b1 :
         MakeAll(b1, Tail(keys)))

\* The piece classes the factory has a constructor for: the sources hold
\* piece::Rook alone.
Factory == {"Rook"}

\* The first loop of the constructor handing every piece the first slot's
\* position.
RECURSIVE PlaceAll_FirstPos(_, _, _)
PlaceAll_FirstPos(pcs, layout, keys) ==
    IF keys = <<>> THEN [thrown |-> FALSE, pieces |-> pcs]
    ELSE PlaceAll_FirstPos(Put(pcs, Head(keys),
                               NewPiece(Cardinality(DOMAIN pcs) + 1,
                                        MinKey(DOMAIN layout),
                                        layout[Head(keys)].suit)),
                           layout, Tail(keys))

\* The first loop of the constructor passing over the slots whose class the
\* factory does not hold.
RECURSIVE PlaceAll_SkipMissing(_, _, _)
PlaceAll_SkipMissing(pcs, layout, keys) ==
    IF keys = <<>> THEN [thrown |-> FALSE, pieces |-> pcs]
    ELSE IF layout[Head(keys)].class \notin Factory
         THEN PlaceAll_SkipMissing(pcs, layout, Tail(keys))
         ELSE PlaceAll_SkipMissing(Put(pcs, Head(keys),
                                       NewPiece(Cardinality(DOMAIN pcs) + 1, Head(keys),
                                                layout[Head(keys)].suit)),
                                   layout, Tail(keys))

\* The first loop of the constructor: one piece per slot of the layout, made
\* by the factory's entry for the slot's class; factory.at throws
\* std::out_of_range for a class it does not hold.
RECURSIVE PlaceAll(_, _, _)
PlaceAll(pcs, layout, keys) ==
    IF keys = <<>> THEN [thrown |-> FALSE, pieces |-> pcs]
    ELSE IF layout[Head(keys)].class \notin Factory
         THEN [thrown |-> TRUE, pieces |-> <<>>]
         ELSE PlaceAll(Put(pcs, Head(keys),
                           NewPiece(Cardinality(DOMAIN pcs) + 1, Head(keys),
                                    layout[Head(keys)].suit)),
                       layout, Tail(keys))

\* The exception leaves the constructor: there is no board.
NoBoard == [pieces |-> <<>>, captures |-> EmptyBag, log |-> <<>>, thrown |-> TRUE]

\* Board::Board.
Construct(layout) ==
    Then(PlaceAll(<<>>, layout, KeysInOrder(DOMAIN layout)), LAMBDA placed :
    IF placed.thrown THEN NoBoard
    ELSE MakeAll([pieces |-> placed.pieces, captures |-> EmptyBag, log |-> <<>>,
                  thrown |-> FALSE],
                 KeysInOrder(DOMAIN placed.pieces)))

\* tick for every piece but the one that moved, in order.
RECURSIVE TickOthers(_, _, _)
TickOthers(b, keys, m) ==
    IF keys = <<>> THEN b
    ELSE Then(IF Head(keys) = m THEN b ELSE Tick(b, Head(keys), m), LAMBDA b1 :
         TickOthers(b1, Tail(keys), m))

\* The recalculation pass of Board::update: the relation is discarded and
\* rebuilt by makeTrajectory for every piece in order.
Recalculate(b) ==
    Then([b EXCEPT !.captures = EmptyBag], LAMBDA b1 :
    MakeAll(b1, KeysInOrder(DOMAIN b1.pieces)))

\* Board::update(pos): every piece but the one at pos is ticked, in order,
\* and the whole board is recalculated.
BoardUpdate(b, pos) ==
    Then(TickOthers(b, KeysInOrder(DOMAIN b.pieces), pos), LAMBDA b1 :
    Recalculate(b1))

\* The relocation that move and capture share: the entry at source is
\* removed and the piece inserted at target, Piece::move runs on it
\* (position, moveUpdate, move count), and the board is updated for the
\* square it has come to.
Relocate(b, source, target) ==
    Then(b.pieces[source], LAMBDA mover :
    Then([b EXCEPT !.pieces = Put(Erase(@, source), target, mover)], LAMBDA b1 :
    Then(PieceMove(b1, target, target), LAMBDA b2 :
    BoardUpdate(b2, target))))

\* What Board::move and Board::capture hand back: the board and the flag,
\* with the calls of the pieces' virtual functions made on the way.
Outcome(b, ret) ==
    [pieces |-> b.pieces, captures |-> b.captures, ret |-> ret, log |-> b.log]

\* Board::move taking the piece out of the table before it looks at target.
BoardMove_EraseFirst(b, source, target) ==
    IF At(b.pieces, source) = NoPiece
    THEN Outcome(b, FALSE)
    ELSE IF target \notin Trajectory(At(b.pieces, source))
         THEN Outcome([b EXCEPT !.pieces = Erase(@, source)], FALSE)
         ELSE Outcome(Relocate(b, source, target), TRUE)

\* Board::move: it fails, and changes nothing, unless source holds a piece
\* and target is one of its trajectory.
BoardMove(b, source, target) ==
    IF At(b.pieces, source) = NoPiece
    THEN Outcome(b, FALSE)
    ELSE IF target \notin Trajectory(At(b.pieces, source))
         THEN Outcome(b, FALSE)
         ELSE Outcome(Relocate(b, source, target), TRUE)

\* Captures_t::end(), the entry that is none.
CapturesEnd == <<PiecesEnd, PiecesEnd>>

\* Board::capture without the test of the piece at source against the entry.
BoardCapture_AnyAttacker(b, source, entry) ==
    IF At(b.pieces, source) = NoPiece
    THEN Outcome(b, FALSE)
    ELSE IF entry = CapturesEnd \/ ~BagIn(entry, b.captures)
         THEN Outcome(b, FALSE)
         ELSE IF entry[1] = source
              THEN Outcome(b, FALSE)
              ELSE Outcome(Relocate([b EXCEPT !.pieces = Erase(@, entry[1])],
                                    source, entry[2]),
                           TRUE)

\* Board::capture taking out what stands on the entry's tile instead of the
\* piece the entry names.
BoardCapture_EraseLanding(b, source, entry) ==
    IF At(b.pieces, source) = NoPiece
    THEN Outcome(b, FALSE)
    ELSE IF entry = CapturesEnd \/ ~BagIn(entry, b.captures)
         THEN Outcome(b, FALSE)
         ELSE IF entry[1] = source \/ entry[2] \notin Capturing(At(b.pieces, source))
              THEN Outcome(b, FALSE)
              ELSE Outcome(Relocate([b EXCEPT !.pieces = Erase(@, entry[2])],
                                    source, entry[2]),
                           TRUE)

\* Board::capture: it fails, and changes nothing, unless source holds a
\* piece, the entry is one of the relation, it names another piece than the
\* one at source, and the piece at source has registered the entry's tile
\* as one it captures onto.  Otherwise the captured piece leaves the table
\* and the piece at source is relocated to the entry's tile.
BoardCapture(b, source, entry) ==
    IF At(b.pieces, source) = NoPiece
    THEN Outcome(b, FALSE)
    ELSE IF entry = CapturesEnd \/ ~BagIn(entry, b.captures)
         THEN Outcome(b, FALSE)
         ELSE IF entry[1] = source \/ entry[2] \notin Capturing(At(b.pieces, source))
              THEN Outcome(b, FALSE)
              ELSE Outcome(Relocate([b EXCEPT !.pieces = Erase(@, entry[1])],
                                    source, entry[2]),
                           TRUE)

---------------------------------------------------------------------------
(* Board::getInteraction *)

\* The rule type the pieces of the repository ask for (typeid(InteractionT)):
\* board::Castling, which the rook holds.
InteractionTypes == {"Castling"}

\* new InteractionT(*this): the instances are told apart by a serial number.
NewInteraction(ints, t) == [type |-> t, serial |-> Cardinality(DOMAIN ints) + 1]

\* A second class derived from Board::Interaction, for callers that ask for
\* more than one rule type.
RuleTypes == InteractionTypes \cup {"Other"}

\* No instance.
NoInteraction == [type |-> "", serial |-> 0]

\* Board::getInteraction without the test for an instance of the type.
GetInteractionMap_Always(ints, t) == (t :> NewInteraction(ints, t)) @@ ints

\* Board::getInteraction: the registry after the call.
GetInteractionMap(ints, t) ==
    IF t \notin DOMAIN ints
    THEN (t :> NewInteraction(ints, t)) @@ ints
    ELSE ints

\* Board::getInteraction: the instance returned.
GetInteractionRef(ints, t) == GetInteractionMap(ints, t)[t]

---------------------------------------------------------------------------
(* The configurations the board is built from *)

White == "White"
Black == "Black"

\* config::BoardConfig: boardWidth(), boardHeight() and initialLayout().
BoardConfigs ==
    { [boardWidth |-> 3, boardHeight |-> 2,
       initialLayout |-> [k \in {<<0, 0>>, <<1, 0>>, <<2, 1>>} |->
                            [class |-> "Rook",
                             suit |-> IF k = <<1, 0>> THEN Black ELSE White]]],
      [boardWidth |-> 3, boardHeight |-> 2,
       initialLayout |-> [k \in {<<0, 0>>, <<1, 0>>, <<2, 0>>} |->
                            [class |-> "Rook",
                             suit |-> IF k = <<2, 0>> THEN Black ELSE White]]],
      [boardWidth |-> 2, boardHeight |-> 3,
       initialLayout |-> [k \in {<<0, 0>>, <<0, 2>>} |->
                            [class |-> "Rook",
                             suit |-> IF k = <<0, 0>> THEN White ELSE Black]]],
      [boardWidth |-> 3, boardHeight |-> 3,
       initialLayout |-> [k \in {<<0, 0>>} |-> [class |-> "Rook", suit |-> White]]] }

\* The positions a caller passes: every square and one beyond the edges.
CallPositions == Squares \cup {Position_t(config.boardWidth, -1)}

\* The entries a caller passes: those of the relation, those an earlier
\* pass held or could have held, and end().
CallEntries ==
    BagToSet(captures) \cup {<<k, k>> : k \in Squares} \cup {CapturesEnd}

NoPos == <<>>

\* The board as the operations see it, no call made yet.
Board == [pieces |-> pieces, captures |-> captures, log |-> <<>>]

\* What the arguments of a call are in the state in which it is made.
NoFacts == [occupied |-> FALSE, inTraj |-> FALSE, inCapt |-> FALSE,
            live |-> FALSE, self |-> FALSE]

MoveFacts(source, target) ==
    [occupied |-> source \in DOMAIN pieces,
     inTraj   |-> source \in DOMAIN pieces /\ target \in pieces[source].traj,
     inCapt   |-> source \in DOMAIN pieces /\ target \in pieces[source].capt,
     live     |-> FALSE,
     self     |-> source = target]

CaptureFacts(source, entry) ==
    [occupied |-> source \in DOMAIN pieces,
     inTraj   |-> source \in DOMAIN pieces /\ entry[2] \in pieces[source].traj,
     inCapt   |-> source \in DOMAIN pieces /\ entry[2] \in pieces[source].capt,
     live     |-> entry # CapturesEnd /\ BagIn(entry, captures),
     self     |-> entry[1] = source]

\* What is recorded of a call: its kind, its result, what its arguments
\* were in the state of the call and, when it succeeded, the arguments.
Returned(op, ret, facts, source, target, entry) ==
    IF ret
    THEN [op |-> op, ret |-> TRUE, pre |-> facts, source |-> source,
          target |-> target, entry |-> entry, events |-> <<>>,
          ref |-> NoInteraction]
    ELSE [op |-> op, ret |-> FALSE, pre |-> facts, source |-> NoPos,
          target |-> NoPos, entry |-> CapturesEnd, events |-> <<>>,
          ref |-> NoInteraction]

\* The same with the calls of the pieces' virtual functions that the
\* operation made.
ReturnedWith(op, r, facts, source, target, entry) ==
    [Returned(op, r.ret, facts, source, target, entry) EXCEPT !.events = r.log]

---------------------------------------------------------------------------
(* The state machine *)

Init ==
    /\ config \in BoardConfigs
    /\ LET b == Construct(config.initialLayout)
       IN  /\ pieces = b.pieces
           /\ captures = b.captures
    /\ interactions = <<>>
    /\ res = <<>>
    /\ last = Returned("construct", TRUE, NoFacts, NoPos, NoPos, CapturesEnd)

\* A call of Board::move(source, target).
Move(source, target) ==
    LET r == BoardMove(Board, source, target)
    IN  /\ r.ret => pieces[source].movenum < MaxMoves
        /\ pieces' = r.pieces
        /\ captures' = r.captures
        /\ last' = ReturnedWith("move", r, MoveFacts(source, target),
                                source, target, CapturesEnd)
        /\ UNCHANGED <<config, interactions, res>>

\* A call of Board::capture(source, entry).
Capture(source, entry) ==
    LET r == BoardCapture(Board, source, entry)
    IN  /\ r.ret => pieces[source].movenum < MaxMoves
        /\ pieces' = r.pieces
        /\ captures' = r.captures
        /\ last' = ReturnedWith("capture", r, CaptureFacts(source, entry),
                                source, entry[2], entry)
        /\ UNCHANGED <<config, interactions, res>>

\* A call of Board::getInteraction<t>().
GetInteraction(t) ==
    /\ interactions' = GetInteractionMap(interactions, t)
    /\ last' = [Returned("getInteraction", TRUE, NoFacts, NoPos, NoPos, CapturesEnd)
                   EXCEPT !.ref = GetInteractionRef(interactions, t)]
    /\ UNCHANGED <<config, pieces, captures, res>>

Next ==
    \/ \E source \in CallPositions, target \in CallPositions : Move(source, target)
    \/ \E source \in CallPositions, entry \in CallEntries : Capture(source, entry)
    \/ \E t \in InteractionTypes : GetInteraction(t)

Spec == Init /\ [][Next]_vars

---------------------------------------------------------------------------
(* The recalculations a holder of the board can ask for: makeTrajectory of  *)
(* one piece, which is public, and Board::update.                          *)

\* The boards the recalculations are asked for on: those of at most two
\* pieces.
RecalcConfigs ==
    {c \in BoardConfigs : Cardinality(DOMAIN c.initialLayout) <= 2}

InitRecalc == Init /\ config \in RecalcConfigs

\* A call of makeTrajectory on the piece at key. It puts one more entry into
\* the relation: the calls stop when the relation holds MaxEntries.
MakeTrajectoryCall(key) ==
    /\ BagCardinality(captures) < MaxEntries
    /\ LET b == MakeTrajectory(Board, key)
       IN  /\ pieces' = b.pieces
           /\ captures' = b.captures
    /\ last' = Returned("makeTrajectory", TRUE, NoFacts, NoPos, NoPos, CapturesEnd)
    /\ UNCHANGED <<config, interactions, res>>

\* A call of Board::update(pos).
Update(pos) ==
    /\ LET b == BoardUpdate(Board, pos)
       IN  /\ pieces' = b.pieces
           /\ captures' = b.captures
    /\ last' = Returned("update", TRUE, NoFacts, NoPos, NoPos, CapturesEnd)
    /\ UNCHANGED <<config, interactions, res>>

NextRecalc ==
    \/ Next
    \/ \E key \in DOMAIN pieces : MakeTrajectoryCall(key)
    \/ \E pos \in CallPositions : Update(pos)

SpecRecalc == InitRecalc /\ [][NextRecalc]_vars

---------------------------------------------------------------------------
(* The constructor on layouts that name classes the factory may not hold.  *)

\* The slots of a layout: a piece class and a suit.
Slots == [class : {"Rook", "Pawn"}, suit : {White, Black}]

\* The layouts of at most MaxSlots slots on a board of two by two.
Layouts ==
    UNION {[S -> Slots] : S \in {T \in SUBSET ((0 .. 1) \X (0 .. 1)) :
                                    Cardinality(T) <= MaxSlots}}

ConstructConfigs ==
    {[boardWidth |-> 2, boardHeight |-> 2, initialLayout |-> l] : l \in Layouts}

\* No board yet: the configuration is at hand.
InitConstruct ==
    /\ config \in ConstructConfigs
    /\ pieces = <<>>
    /\ captures = EmptyBag
    /\ interactions = <<>>
    /\ res = <<>>
    /\ last = Returned("none", TRUE, NoFacts, NoPos, NoPos, CapturesEnd)

\* Board::Board(conf, fact).
ConstructBoard ==
    /\ last.op = "none"
    /\ LET b == Construct(config.initialLayout)
       IN  /\ pieces' = b.pieces
           /\ captures' = b.captures
           /\ last' = [Returned("construct", ~b.thrown, NoFacts, NoPos, NoPos,
                                CapturesEnd) EXCEPT !.events = b.log]
    /\ UNCHANGED <<config, interactions, res>>

NextConstruct == ConstructBoard

SpecConstruct == InitConstruct /\ [][NextConstruct]_vars

---------------------------------------------------------------------------
(* The queries valid and at, each as the last step of a behaviour.         *)

\* The positions asked about: the squares and those one step beyond any edge.
QueryPositions == (-1 .. config.boardWidth) \X (-1 .. config.boardHeight)

\* A call of Board::valid(pos).
ValidCall(pos) ==
    /\ last' = [op |-> "valid", ret |-> Valid(pos), pre |-> NoFacts,
                source |-> pos, target |-> NoPos, entry |-> CapturesEnd,
                events |-> <<>>, ref |-> NoInteraction]
    /\ UNCHANGED <<config, pieces, captures, interactions, res>>

\* A call of Board::at(pos): ret tells whether the pointer is non-null.
AtCall(pos) ==
    /\ pieces' = AtTable(pieces, pos)
    /\ last' = [op |-> "at", ret |-> At(pieces, pos) # NoPiece, pre |-> NoFacts,
                source |-> pos, target |-> NoPos, entry |-> CapturesEnd,
                events |-> <<>>, ref |-> NoInteraction, piece |-> At(pieces, pos)]
    /\ UNCHANGED <<config, captures, interactions, res>>

NextQuery ==
    /\ last.op \notin {"valid", "at"}
    /\ \/ Next
       \/ \E pos \in QueryPositions : ValidCall(pos)
       \/ \E pos \in QueryPositions : AtCall(pos)

SpecQuery == Init /\ [][NextQuery]_vars

---------------------------------------------------------------------------
(* Callers that ask for two rule types, between moves and captures made    *)
(* from the squares of the board with entries of the relation.             *)

NextInteract ==
    \/ \E source \in Squares, target \in Squares : Move(source, target)
    \/ \E source \in Squares, entry \in BagToSet(captures) : Capture(source, entry)
    \/ \E t \in RuleTypes : GetInteraction(t)

SpecInteract == Init /\ [][NextInteract]_vars

---------------------------------------------------------------------------
(* A rule hook calling one registration primitive with a tile of its       *)
(* choice, as the last step of a behaviour.                                *)

Primitives == {"addTrajectory", "removeTrajectory", "addCapturing",
               "removeCapturing", "addCapturable", "removeCapturable"}

ApplyPrimitive(op, b, key, tile) ==
    CASE op = "addTrajectory"    -> AddTrajectory(b, key, tile)
      [] op = "removeTrajectory" -> RemoveTrajectory(b, key, tile)
      [] op = "addCapturing"     -> AddCapturing(b, key, tile)
      [] op = "removeCapturing"  -> RemoveCapturing(b, key, tile)
      [] op = "addCapturable"    -> AddCapturable(b, key, tile)
      [] op = "removeCapturable" -> RemoveCapturable(b, key, tile)

\* calcTrajectory of a derived class that makes the calls of script, each a
\* registration primitive with a tile.
RECURSIVE CalcTrajectoryOf(_, _, _)
CalcTrajectoryOf(b, key, script) ==
    IF script = <<>> THEN b
    ELSE Then(Log(b, Event(Head(script).op, b.pieces[key], <<>>, Head(script).tile)),
              LAMBDA b1 :
         Then(ApplyPrimitive(Head(script).op, b1, key, Head(script).tile), LAMBDA b2 :
         CalcTrajectoryOf(b2, key, Tail(script))))

\* Piece::makeTrajectory of such a piece, without addCapturable(pos).
MakeTrajectoryOf_NoMarker(b, key, script) ==
    Then(Log(b, Event("makeTrajectory", b.pieces[key], <<>>, <<>>)), LAMBDA b0 :
    Then([b0 EXCEPT !.pieces[key].traj = {}, !.pieces[key].capt = {}], LAMBDA b1 :
    CalcTrajectoryOf(b1, key, script)))

\* Piece::makeTrajectory of such a piece.
MakeTrajectoryOf(b, key, script) ==
    Then(Log(b, Event("makeTrajectory", b.pieces[key], <<>>, <<>>)), LAMBDA b0 :
    Then([b0 EXCEPT !.pieces[key].traj = {}, !.pieces[key].capt = {}], LAMBDA b1 :
    Then(AddCapturable(b1, key, b1.pieces[key].p), LAMBDA b2 :
    CalcTrajectoryOf(b2, key, script))))

\* What such a calcTrajectory calls: any of the six primitives, the three
\* that add and the three that remove, with the first square, the last
\* square or one beyond the edges.
HookTiles ==
    {Origin, Position_t(config.boardWidth - 1, config.boardHeight - 1),
     Position_t(config.boardWidth, -1)}
HookCalls == [op : Primitives, tile : HookTiles]
HookScripts == UNION {[1 .. n -> HookCalls] : n \in 0 .. MaxHookCalls}

\* makeTrajectory run on the piece at key, its calcTrajectory being script,
\* on a board that construction or a move or capture has left.
MakeTrajectoryHook(key, script) ==
    /\ LET b == MakeTrajectoryOf(Board, key, script)
       IN  /\ pieces' = b.pieces
           /\ captures' = b.captures
           /\ last' = [op |-> "makeTrajectoryOf", ret |-> TRUE, pre |-> NoFacts,
                       source |-> key, target |-> NoPos, entry |-> CapturesEnd,
                       events |-> b.log, ref |-> NoInteraction]
    /\ UNCHANGED <<config, interactions, res>>

NextHook ==
    /\ last.op # "makeTrajectoryOf"
    /\ \/ Next
       \/ /\ last.op \in {"construct", "move", "capture"} /\ last.ret
          /\ \E key \in DOMAIN pieces, script \in HookScripts :
                 MakeTrajectoryHook(key, script)

SpecHook == Init /\ [][NextHook]_vars

Register(op, key, tile) ==
    /\ LET b == ApplyPrimitive(op, Board, key, tile)
       IN  /\ pieces' = b.pieces
           /\ captures' = b.captures
    /\ last' = [op |-> op, ret |-> TRUE, pre |-> NoFacts, source |-> key,
                target |-> tile, entry |-> CapturesEnd, events |-> <<>>,
                ref |-> NoInteraction]
    /\ UNCHANGED <<config, interactions, res>>

NextRegister ==
    /\ last.op \notin Primitives
    /\ \/ Next
       \/ \E op \in Primitives, key \in DOMAIN pieces, tile \in CallPositions :
              Register(op, key, tile)

SpecRegister == Init /\ [][NextRegister]_vars

---------------------------------------------------------------------------
(* Rules that let a piece be captured on another square than the one it    *)
(* stands on, as en passant does: the captured piece registers a vacant    *)
(* square as capturable and the capturing piece the same square as one it  *)
(* captures onto. Both are calls of a primitive by a piece's hook.         *)

\* The entries of the relation whose tile is not the square of their piece.
Landings == {e \in BagToSet(captures) : e[1] # e[2]}

\* On a board that an operation has left, the piece at key registers the
\* vacant square tile as one it can be captured on.
RegisterLanding(key, tile) ==
    /\ Landings = {}
    /\ last.op \in {"construct", "move", "capture"} /\ last.ret
    /\ Register("addCapturable", key, tile)

\* Another piece then registers that square as one it captures onto.
RegisterCapturing(key) ==
    /\ last.op = "addCapturable"
    /\ key # last.source
    /\ Register("addCapturing", key, last.target)

\* With such a square registered the caller calls capture with its entry,
\* until a capture succeeds and the pass discards what was registered.
NextLanding ==
    \/ /\ Landings = {}
       /\ Next
    \/ \E key \in DOMAIN pieces, tile \in Squares \ DOMAIN pieces :
           RegisterLanding(key, tile)
    \/ \E key \in DOMAIN pieces : RegisterCapturing(key)
    \/ /\ Landings # {}
       /\ last.op # "addCapturable"
       /\ \E source \in CallPositions, entry \in Landings :
              Capture(source, entry)

SpecLanding == Init /\ [][NextLanding]_vars

---------------------------------------------------------------------------
(* addCapturable and removeCapturable called once, as the last step, on a  *)
(* board as the operations and the recalculations have left it.            *)

NextCapturable ==
    \/ /\ last.op \notin Primitives
       /\ NextRecalc
    \/ /\ last.op \notin Primitives
       /\ \E op \in {"addCapturable", "removeCapturable"}, key \in DOMAIN pieces,
             tile \in CallPositions : Register(op, key, tile)

SpecCapturable == InitRecalc /\ [][NextCapturable]_vars

---------------------------------------------------------------------------
(* res::ResourceManager *)

\* Two classes derived from ResourceManager::Resource (typeid(ResT)).
ResTypes == {"ResA", "ResB"}

\* std::string("\0", 1): the string of the one character NUL. Strings are
\* sequences of characters.
Nul == <<"NUL">>

\* util::path_concat is declared in another header. It makes one string of
\* the glue and the components; where it puts the glue is not to be seen
\* from its call, so the build has one of these: the glue between the
\* components, after each of them, or before each of them.
ConcatStyles == {"between", "after", "before"}

\* util::path_concat(glue, path...) of the build.
RECURSIVE PathConcat(_, _)
PathConcat(glue, path) ==
    IF path = <<>> THEN <<>>
    ELSE CASE config.pathConcat = "between" ->
                  IF Len(path) = 1 THEN Head(path)
                  ELSE Head(path) \o glue \o PathConcat(glue, Tail(path))
           [] config.pathConcat = "after" ->
                  Head(path) \o glue \o PathConcat(glue, Tail(path))
           [] config.pathConcat = "before" ->
                  glue \o Head(path) \o PathConcat(glue, Tail(path))

\* The paths asked for by from_config: the components of a setting's path,
\* one or more.
ConfigPaths == { << <<"a">> >>, << <<"a">>, <<"b">> >> }

\* The paths asked for by from_path: any std::string, among them the texts
\* of the paths above and the strings path_concat makes of them.
PathStrings ==
    {<<"a">>, <<"a", "b">>} \cup {PathConcat(Nul, path) : path \in ConfigPaths}

\* Res_t::key_type key of from_config and of from_path.
FromConfigKey(T, path) == <<PathConcat(Nul, path), T>>
FromPathKey(T, path) == <<path, T>>

\* new ResT{...}: the instances are told apart by a serial number; made
\* tells which function constructed it and arg what it was constructed from.
NewResource(r, T, made, arg) ==
    [type |-> T, serial |-> Cardinality(DOMAIN r) + 1, made |-> made, arg |-> arg]

\* res.emplace(key, ...) behind the test res.find(key) == end.
EmplaceIfAbsent(r, key, resource) ==
    IF key \notin DOMAIN r THEN (key :> resource) @@ r ELSE r

\* from_config and from_path: the map after the call; res[key] is returned.
FromConfigMap(r, T, path) ==
    EmplaceIfAbsent(r, FromConfigKey(T, path),
                    NewResource(r, T, "from_config", <<"setting", path>>))
FromPathMap(r, T, path) ==
    EmplaceIfAbsent(r, FromPathKey(T, path), NewResource(r, T, "from_path", path))

\* A manager just constructed, in a build with one of the path_concat;
\* there is no board.
InitRes ==
    /\ config \in {[boardWidth |-> 0, boardHeight |-> 0, initialLayout |-> <<>>,
                    pathConcat |-> style] : style \in ConcatStyles}
    /\ pieces = <<>>
    /\ captures = EmptyBag
    /\ interactions = <<>>
    /\ res = <<>>
    /\ last = [op |-> "none", type |-> "", arg |-> <<>>, key |-> <<>>,
               returned |-> NewResource(<<>>, "", "", <<>>)]

\* A call of from_config<T>(path...).
FromConfig(T, path) ==
    /\ res' = FromConfigMap(res, T, path)
    /\ Cardinality(DOMAIN res') <= MaxResources
    /\ last' = [op |-> "from_config", type |-> T, arg |-> path,
                key |-> FromConfigKey(T, path),
                returned |-> res'[FromConfigKey(T, path)]]
    /\ UNCHANGED <<config, pieces, captures, interactions>>

\* A call of from_path<T>(path).
FromPath(T, path) ==
    /\ res' = FromPathMap(res, T, path)
    /\ Cardinality(DOMAIN res') <= MaxResources
    /\ last' = [op |-> "from_path", type |-> T, arg |-> path,
                key |-> FromPathKey(T, path),
                returned |-> res'[FromPathKey(T, path)]]
    /\ UNCHANGED <<config, pieces, captures, interactions>>

NextRes ==
    \/ \E T \in ResTypes, path \in ConfigPaths : FromConfig(T, path)
    \/ \E T \in ResTypes, path \in PathStrings : FromPath(T, path)

SpecRes == InitRes /\ [][NextRes]_vars

TypeOK ==
    /\ config \in BoardConfigs \cup ConstructConfigs
    /\ DOMAIN pieces \subseteq Squares
    /\ IsABag(captures)
    /\ last.ret \in BOOLEAN

---------------------------------------------------------------------------
(* Atomicity of failed calls *)

\* C1: a call of move or capture that returns failure leaves the whole
\* observable state as it was: the position table with every piece's
\* position, trajectory, capturing set and move count, the capture relation
\* and the interaction registry.
C1_FailedCallChangesNothing ==
    [][(last'.op \in {"move", "capture"} /\ ~last'.ret)
          => UNCHANGED <<pieces, captures, interactions>>]_vars

\* A move has failed on a board on which a piece has moved and an
\* interaction exists.
C1_Witness ==
    /\ last.op = "move" /\ ~last.ret /\ last.pre.occupied
    /\ \E k \in DOMAIN pieces : pieces[k].movenum > 0
    /\ interactions # <<>>

---------------------------------------------------------------------------
(* The position table *)

\* C2: in every reachable state every key of the position table holds a
\* piece, no piece is held under two keys, and every piece's position field
\* is the key it is stored under.
C2_Occupancy ==
    /\ \A k \in DOMAIN pieces : pieces[k] # NoPiece /\ pieces[k].p = k
    /\ \A k1, k2 \in DOMAIN pieces : pieces[k1].id = pieces[k2].id => k1 = k2

\* A piece has moved and another has then captured.
C2_Witness ==
    /\ last.op = "capture" /\ last.ret
    /\ \E k \in DOMAIN pieces : k # last.target /\ pieces[k].movenum > 0

---------------------------------------------------------------------------
(* Board::move *)

\* C3: move returns success only if, in the state of the call, source is
\* occupied and target is in the trajectory of the piece at source; with an
\* unoccupied source or a target outside that trajectory, one that is only
\* in the capturing set included, it returns failure.
C3_MoveOnlyAlongTrajectory ==
    last.op = "move" => (last.ret => (last.pre.occupied /\ last.pre.inTraj))

\* A move onto a tile of the capturing set that is no trajectory has failed.
C3_Witness ==
    /\ last.op = "move" /\ ~last.ret
    /\ last.pre.occupied /\ last.pre.inCapt /\ ~last.pre.inTraj

\* C4: after a successful move with source # target, source is unoccupied,
\* target holds the piece that was at source (same identity, same suit) with
\* its position equal to target, every other piece is stored where it was,
\* and the number of pieces is unchanged.
C4_MoveEffect ==
    [][(last'.op = "move" /\ last'.ret /\ last'.source # last'.target) =>
          LET s == last'.source
              t == last'.target
          IN  /\ s \notin DOMAIN pieces'
              /\ t \in DOMAIN pieces'
              /\ pieces'[t].id = pieces[s].id
              /\ pieces'[t].s = pieces[s].s
              /\ pieces'[t].p = t
              /\ \A k \in DOMAIN pieces \ {s} :
                    k \in DOMAIN pieces' /\ pieces'[k].id = pieces[k].id
              /\ Cardinality(DOMAIN pieces') = Cardinality(DOMAIN pieces)]_vars

\* A piece has moved past another piece's row and stands on its target.
C4_Witness ==
    /\ last.op = "move" /\ last.ret /\ last.source # last.target
    /\ last.target \in DOMAIN pieces
    /\ Cardinality(DOMAIN pieces) > 1

---------------------------------------------------------------------------
(* Board::capture *)

\* C5: capture returns success only if, in the state of the call, source is
\* occupied, the entry is one the relation holds, and the entry matches the
\* piece at source (it names another piece, and its tile is one the piece at
\* source has registered as capturing); with a mismatched, stale or
\* nonexistent entry it returns failure and changes nothing.
C5_CaptureOnlyByValidEntry ==
    [][last'.op = "capture" =>
          /\ last'.ret => /\ last'.pre.occupied
                          /\ last'.pre.live
                          /\ ~last'.pre.self
                          /\ last'.pre.inCapt
          /\ ~last'.ret => UNCHANGED <<pieces, captures, interactions>>]_vars

\* A capture with an entry of the relation that the piece at source has not
\* registered as capturing has failed.
C5_Witness ==
    /\ last.op = "capture" /\ ~last.ret
    /\ last.pre.occupied /\ last.pre.live /\ ~last.pre.self /\ ~last.pre.inCapt

\* C6: after a successful capture the piece the entry names is in the table
\* no more, whatever square it stood on, the piece that was at source is
\* stored at the entry's tile, be it the captured piece's square or a vacant
\* one that the pieces' rules registered, source is unoccupied, there is
\* exactly one piece less, and every other piece is stored where it was.
C6_CaptureEffect ==
    [][(last'.op = "capture" /\ last'.ret) =>
          LET s == last'.source
              e == last'.entry
          IN  /\ \A k \in DOMAIN pieces' : pieces'[k].id # pieces[e[1]].id
              /\ e[2] \in DOMAIN pieces'
              /\ pieces'[e[2]].id = pieces[s].id
              /\ s \notin DOMAIN pieces'
              /\ Cardinality(DOMAIN pieces') = Cardinality(DOMAIN pieces) - 1
              /\ \A k \in DOMAIN pieces \ {s, e[1]} :
                    k \in DOMAIN pieces' /\ pieces'[k].id = pieces[k].id]_vars

\* A capture has succeeded on a board of three pieces with an entry whose
\* tile is not the square of the captured piece: that square is vacant now,
\* the capturing piece stands on the tile, and the third piece is there.
C6_Witness ==
    /\ last.op = "capture" /\ last.ret
    /\ last.entry[1] # last.entry[2]
    /\ last.entry[1] \notin DOMAIN pieces
    /\ last.target = last.entry[2] /\ last.target \in DOMAIN pieces
    /\ Cardinality(DOMAIN pieces) = 2

---------------------------------------------------------------------------
(* The capture relation *)

\* What one pass registers: makeTrajectory adds, for each piece on a valid
\* square, one entry of the piece with its own square.
PassRegistrations == {<<k, pieces[k].p>> : k \in {j \in DOMAIN pieces : Valid(pieces[j].p)}}

\* C7: after every recalculation pass every entry of the relation is one
\* registered in that pass: it is keyed by a piece on the board, its tile is
\* the one that piece registered, and it is there once; no entry of a
\* removed piece and no entry of an earlier pass is left.
C7_RelationIsOfThisPass ==
    \A e \in BagToSet(captures) :
        e \in PassRegistrations /\ CopiesIn(e, captures) = 1

\* A piece has moved after another was captured: entries of both a removed
\* piece and a moved piece have existed.
C7_Witness ==
    /\ last.op = "move" /\ last.ret
    /\ Cardinality(DOMAIN pieces) < Cardinality(DOMAIN config.initialLayout)
    /\ captures # EmptyBag

---------------------------------------------------------------------------
(* Recalculation *)

\* The board after makeTrajectory has run for every piece in order, and
\* after it has run so a second time with nothing done in between.
FirstPass == MakeAll(Board, KeysInOrder(DOMAIN pieces))
SecondPass == MakeAll(FirstPass, KeysInOrder(DOMAIN pieces))

\* C8: on any board, makeTrajectory run for every piece a second time, with
\* nothing changed in between, leaves the derived state as the first run
\* left it: every piece's trajectory and capturing set, and the capture
\* relation with the number of entries it holds for each piece and square.
C8_RecalculationIdempotent ==
    /\ \A k \in DOMAIN pieces :
          /\ SecondPass.pieces[k].traj = FirstPass.pieces[k].traj
          /\ SecondPass.pieces[k].capt = FirstPass.pieces[k].capt
    /\ SecondPass.captures = FirstPass.captures

\* The part of C8 that the code keeps: the trajectories, the capturing sets
\* and the set of entries of the relation are the same after the second run.
C8_SetsIdempotent ==
    /\ \A k \in DOMAIN pieces :
          /\ SecondPass.pieces[k].traj = FirstPass.pieces[k].traj
          /\ SecondPass.pieces[k].capt = FirstPass.pieces[k].capt
    /\ BagToSet(SecondPass.captures) = BagToSet(FirstPass.captures)

---------------------------------------------------------------------------
(* Bounds of the registered squares *)

\* Every registered square is one of the board.
AllRegisteredValid ==
    /\ \A k \in DOMAIN pieces :
          /\ \A t \in pieces[k].traj : Valid(t)
          /\ \A t \in pieces[k].capt : Valid(t)
    /\ \A e \in BagToSet(captures) : Valid(e[2])

\* C9: in every reachable state every square of a trajectory, of a
\* capturing set and every landing square of the relation satisfies valid(),
\* and a call of addTrajectory, addCapturing or addCapturable with a square
\* that does not changes nothing.
C9_OnlyValidSquaresRegistered ==
    /\ []AllRegisteredValid
    /\ [][(last'.op \in {"addTrajectory", "addCapturing", "addCapturable"}
              /\ ~Valid(last'.target))
             => UNCHANGED <<pieces, captures, interactions>>]_vars

\* A hook has called addCapturing with a square beyond the edge.
C9_Witness ==
    /\ last.op = "addCapturing" /\ ~Valid(last.target)
    /\ \E k \in DOMAIN pieces : pieces[k].movenum > 0

---------------------------------------------------------------------------
(* The rook's rule against the occupancy *)

\* The squares strictly between two squares of one row or one column.
Between(a, c) ==
    {t \in Squares :
        \/ /\ a[1] = c[1] /\ t[1] = a[1]
           /\ \/ (a[2] < t[2] /\ t[2] < c[2])
              \/ (c[2] < t[2] /\ t[2] < a[2])
        \/ /\ a[2] = c[2] /\ t[2] = a[2]
           /\ \/ (a[1] < t[1] /\ t[1] < c[1])
              \/ (c[1] < t[1] /\ t[1] < a[1])}

\* t is on the row or column of a with no piece in between.
Sees(a, t) ==
    /\ a # t
    /\ a[1] = t[1] \/ a[2] = t[2]
    /\ Between(a, t) \cap DOMAIN pieces = {}

\* What the sliding rule gives the piece at k on the present occupancy.
RuleTrajectory(k) == {t \in Squares : Sees(k, t) /\ t \notin DOMAIN pieces}
RuleCapturing(k) ==
    {t \in Squares : Sees(k, t) /\ t \in DOMAIN pieces /\ pieces[t].s # pieces[k].s}

\* C10: after a successful move or capture the trajectory and the capturing
\* set of every piece, not only of the one that moved, are what its rule
\* computes from the occupancy after the call; no trajectory holds a square
\* beyond a blocking piece.
C10_DerivedStateFresh ==
    (last.op \in {"move", "capture"} /\ last.ret) =>
        \A k \in DOMAIN pieces :
            /\ pieces[k].traj = RuleTrajectory(k)
            /\ pieces[k].capt = RuleCapturing(k)
            /\ \A t \in pieces[k].traj : Between(k, t) \cap DOMAIN pieces = {}

\* A blocker has moved away and the piece it blocked reaches the vacated
\* square and a square beyond it.
C10_Witness ==
    /\ last.op = "move" /\ last.ret
    /\ \E k \in DOMAIN pieces \ {last.target} :
          /\ last.source \in pieces[k].traj
          /\ \E t \in pieces[k].traj : last.source \in Between(k, t)

---------------------------------------------------------------------------
(* The order of the calls within move and capture *)

\* The calls of one function among those the last operation made, in order.
CallsOf(name) == SelectSeq(last.events, LAMBDA e : e.ev = name)

\* The places in the sequence of calls at which a hook, and at which
\* makeTrajectory, was called.
HookPlaces == {i \in DOMAIN last.events : last.events[i].ev \in {"moveUpdate", "tick"}}
RecalcPlaces == {i \in DOMAIN last.events : last.events[i].ev = "makeTrajectory"}

\* The first call is the mover's moveUpdate, and tick is then called on
\* every other piece, once, in the order of the positions.
HooksInOrder ==
    /\ Len(last.events) > 0
    /\ last.events[1].ev = "moveUpdate"
    /\ last.events[1].id = pieces[last.target].id
    /\ Len(CallsOf("moveUpdate")) = 1
    /\ LET others == KeysInOrder(DOMAIN pieces \ {last.target})
       IN  /\ Len(CallsOf("tick")) = Len(others)
           /\ \A i \in DOMAIN others : CallsOf("tick")[i].id = pieces[others[i]].id

\* After the last hook makeTrajectory is called on every piece.
AllRecalculatedAtReturn ==
    \A k \in DOMAIN pieces :
        \E i \in RecalcPlaces :
            /\ last.events[i].id = pieces[k].id
            /\ \A h \in HookPlaces : h < i

\* C11: within every successful move or capture the mover's moveUpdate is
\* called first, then tick on every other piece in position order, and
\* makeTrajectory is called on no piece before all hooks have returned; every
\* piece is recalculated before the operation returns.
C11_HooksBeforeRecalculation ==
    (last.op \in {"move", "capture"} /\ last.ret) =>
        /\ HooksInOrder
        /\ \A h \in HookPlaces : \A r \in RecalcPlaces : h < r
        /\ AllRecalculatedAtReturn

\* The part of C11 that holds: the order of the hooks among themselves, and
\* the recalculation of every piece after the last hook.
C11_HooksOrderedAndAllRecalculated ==
    (last.op \in {"move", "capture"} /\ last.ret) =>
        HooksInOrder /\ AllRecalculatedAtReturn

---------------------------------------------------------------------------
(* The steps of Piece::move *)

\* C18: when the board relocates a piece, moveUpdate is called on it with
\* (from, to), from being the square it stood on, when its position is
\* already to and its move count still the old one; makeTrajectory is
\* called on it next, when the position is to and the count is one more.
C18_PieceMoveStepOrder ==
    [][(last'.op \in {"move", "capture"} /\ last'.ret) =>
          LET es == last'.events
              mover == pieces[last'.source]
          IN  /\ Len(es) >= 2
              /\ es[1] = [ev |-> "moveUpdate", id |-> mover.id,
                          p |-> last'.target, movenum |-> mover.movenum,
                          from |-> last'.source, to |-> last'.target]
              /\ es[2] = [ev |-> "makeTrajectory", id |-> mover.id,
                          p |-> last'.target, movenum |-> mover.movenum + 1,
                          from |-> <<>>, to |-> <<>>]
              /\ pieces'[last'.target].movenum = mover.movenum + 1]_vars

\* A piece has captured onto another square than its own, with other pieces
\* left on the board.
C18_Witness ==
    /\ last.op = "capture" /\ last.ret
    /\ last.source # last.target
    /\ Len(last.events) > 2
    /\ last.events[1].ev = "moveUpdate" /\ last.events[1].from = last.source

---------------------------------------------------------------------------
(* The interaction registry *)

\* Every instance is stored under its own type, and no two are the same.
RegistryWellFormed ==
    /\ \A t \in DOMAIN interactions : interactions[t].type = t
    /\ \A t, u \in DOMAIN interactions :
          interactions[t].serial = interactions[u].serial => t = u

\* C12: over any calls of getInteraction between moves and captures, an
\* instance once in the registry stays the same instance, unaltered, under
\* every later step; a request for a type that has an instance returns that
\* instance and constructs none; a request for a type that has none
\* constructs one, new, stores it under the type and returns it; nothing
\* else constructs an instance.
C12_OneInstancePerType ==
    /\ []RegistryWellFormed
    /\ [][/\ \A t \in DOMAIN interactions :
                t \in DOMAIN interactions' /\ interactions'[t] = interactions[t]
          /\ last'.op # "getInteraction" => interactions' = interactions
          /\ last'.op = "getInteraction" =>
                LET t == last'.ref.type
                IN  /\ t \in DOMAIN interactions'
                    /\ last'.ref = interactions'[t]
                    /\ t \in DOMAIN interactions => interactions' = interactions
                    /\ t \notin DOMAIN interactions =>
                          /\ DOMAIN interactions' = DOMAIN interactions \cup {t}
                          /\ \A u \in DOMAIN interactions :
                                interactions[u].serial # last'.ref.serial]_vars

\* The instance constructed first is returned again after a second type's
\* instance was constructed and a piece has moved.
C12_Witness ==
    /\ last.op = "getInteraction"
    /\ DOMAIN interactions = RuleTypes
    /\ last.ref.serial = 1
    /\ \E k \in DOMAIN pieces : pieces[k].movenum > 0

---------------------------------------------------------------------------
(* Construction *)

\* C13: the constructor, given a layout whose classes the factory all holds,
\* leaves exactly one piece per slot, at the slot's square and of the slot's
\* suit, and has run makeTrajectory on every piece once; given a layout with
\* a class the factory does not hold it throws and leaves no board, not one
\* with the pieces of the slots before.
C13_ConstructionPlacesOrThrows ==
    [][last'.op = "construct" =>
          LET l == config.initialLayout
          IN  IF \E k \in DOMAIN l : l[k].class \notin Factory
              THEN /\ ~last'.ret
                   /\ pieces' = <<>>
                   /\ captures' = EmptyBag
                   /\ last'.events = <<>>
              ELSE /\ last'.ret
                   /\ DOMAIN pieces' = DOMAIN l
                   /\ \A k \in DOMAIN l :
                         /\ pieces'[k].p = k
                         /\ pieces'[k].s = l[k].suit
                         /\ pieces'[k].movenum = 0
                         /\ Cardinality({i \in DOMAIN last'.events :
                                /\ last'.events[i].ev = "makeTrajectory"
                                /\ last'.events[i].id = pieces'[k].id}) = 1
                   /\ \A k1, k2 \in DOMAIN l :
                         pieces'[k1].id = pieces'[k2].id => k1 = k2
                   /\ Len(last'.events) = Cardinality(DOMAIN l)]_vars

\* The constructor has thrown on a layout whose first slot the factory
\* could make a piece for.
C13_Witness ==
    /\ last.op = "construct" /\ ~last.ret
    /\ \E k1, k2 \in DOMAIN config.initialLayout :
          /\ PosLess(k1, k2)
          /\ config.initialLayout[k1].class \in Factory
          /\ config.initialLayout[k2].class \notin Factory

---------------------------------------------------------------------------
(* makeTrajectory and the hook *)

\* The tiles the hook passed to one primitive in the last run.
PassedTo(events, op) == {events[i].to : i \in {j \in DOMAIN events : events[j].ev = op}}

\* C14: after makeTrajectory has run for a piece on a square of the board,
\* the relation holds an entry of the piece with its own square, whatever
\* the hook did; and the trajectory and the capturing set of the piece hold
\* only valid squares the hook added in this run.
C14_SelfMarkerAndFreshSets ==
    [][last'.op = "makeTrajectoryOf" =>
          LET k == last'.source
              e == <<k, pieces'[k].p>>
          IN  /\ Valid(pieces[k].p) => BagIn(e, captures')
              /\ pieces'[k].traj \subseteq
                    {t \in PassedTo(last'.events, "addTrajectory") : Valid(t)}
              /\ pieces'[k].capt \subseteq
                    {t \in PassedTo(last'.events, "addCapturing") : Valid(t)}]_vars

\* The calls of removeCapturable with a tile that the hook made in the last
\* run.
RemovalsOf(events, tile) ==
    Cardinality({i \in DOMAIN events :
                    events[i].ev = "removeCapturable" /\ events[i].to = tile})

\* What the code keeps of C14: the sets hold only valid squares added in
\* this run, and every one of them that the hook did not pass to the
\* removing primitive; the piece's entries with its own square are one more
\* than before, less one at the most for each removeCapturable of that
\* square in the hook, so the marker is there when the hook made none.
C14_MarkerUnlessRemoved ==
    [][last'.op = "makeTrajectoryOf" =>
          LET k == last'.source
              e == <<k, pieces'[k].p>>
              added == {t \in PassedTo(last'.events, "addTrajectory") : Valid(t)}
              addedC == {t \in PassedTo(last'.events, "addCapturing") : Valid(t)}
          IN  /\ Valid(pieces[k].p) =>
                    CopiesIn(e, captures') >=
                        CopiesIn(e, captures) + 1 - RemovalsOf(last'.events, e[2])
              /\ pieces'[k].traj \subseteq added
              /\ added \ PassedTo(last'.events, "removeTrajectory")
                    \subseteq pieces'[k].traj
              /\ pieces'[k].capt \subseteq addedC
              /\ addedC \ PassedTo(last'.events, "removeCapturing")
                    \subseteq pieces'[k].capt]_vars

\* The hook of a piece has called removeCapturable with the piece's own
\* square twice: the relation holds no entry of the piece with it.
C14_MarkerRemoved ==
    /\ last.op = "makeTrajectoryOf"
    /\ RemovalsOf(last.events, pieces[last.source].p) = 2
    /\ ~BagIn(<<last.source, pieces[last.source].p>>, captures)

---------------------------------------------------------------------------
(* Move count and suit *)

\* The slot of the layout a piece was made for: the pieces are numbered in
\* the order of the slots.
SlotOf(piece) == KeysInOrder(DOMAIN config.initialLayout)[piece.id]

\* The key under which the piece of that identity is stored in pcs.
KeyOf(pcs, id) == CHOOSE k \in DOMAIN pcs : pcs[k].id = id

\* C15: a piece's move count is 0 when the board is constructed; a
\* successful move or capture adds exactly 1 to the count of the piece it
\* relocates and leaves the count of every other piece that stays on the
\* board as it was; a failed call leaves every count as it was; the suit of
\* a piece is at all times the one of the slot it was made for.
C15_MoveCountAndSuit ==
    /\ [](/\ last.op = "construct" => \A k \in DOMAIN pieces : pieces[k].movenum = 0
          /\ \A k \in DOMAIN pieces :
                pieces[k].s = config.initialLayout[SlotOf(pieces[k])].suit)
    /\ [][\A k \in DOMAIN pieces :
             LET id == pieces[k].id
                 stays == \E j \in DOMAIN pieces' : pieces'[j].id = id
                 relocated == /\ last'.op \in {"move", "capture"} /\ last'.ret
                              /\ last'.source = k
             IN  /\ relocated =>
                       /\ stays
                       /\ KeyOf(pieces', id) = last'.target
                       /\ pieces'[last'.target].movenum = pieces[k].movenum + 1
                 /\ (stays /\ ~relocated) =>
                       /\ KeyOf(pieces', id) = k
                       /\ pieces'[k].movenum = pieces[k].movenum
                 /\ stays => pieces'[KeyOf(pieces', id)].s = pieces[k].s]_vars

\* A piece has moved on a board from which another piece, itself moved
\* before, has been captured by a third.
C15_Witness ==
    /\ last.op = "move" /\ last.ret
    /\ pieces[last.target].movenum = 1
    /\ Cardinality(DOMAIN pieces) < Cardinality(DOMAIN config.initialLayout)
    /\ \E k \in DOMAIN pieces : k # last.target /\ pieces[k].movenum = 1

---------------------------------------------------------------------------
(* The queries *)

\* C16: valid(pos) returns true exactly when 0 <= pos.x < width and
\* 0 <= pos.y < height for the configured width and height, and changes no
\* state.
C16_ValidIsTheBounds ==
    [][last'.op = "valid" =>
          LET pos == last'.source
          IN  /\ last'.ret <=> /\ 0 <= pos[1] /\ pos[1] < config.boardWidth
                               /\ 0 <= pos[2] /\ pos[2] < config.boardHeight
              /\ UNCHANGED <<config, pieces, captures, interactions>>]_vars

\* valid has returned true for the last square of a board that is not
\* square, and on which a piece has moved.
C16_Witness ==
    /\ last.op = "valid" /\ last.ret
    /\ last.source = Position_t(config.boardWidth - 1, config.boardHeight - 1)
    /\ config.boardWidth # config.boardHeight
    /\ \E k \in DOMAIN pieces : pieces[k].movenum > 0

\* C17: at(square) returns the piece stored at the square when it is
\* occupied and null when it is unoccupied or beyond the edges, and leaves
\* the position table as it was: no entry is made for the square asked about.
C17_AtReadsOnly ==
    [][last'.op = "at" =>
          LET pos == last'.source
          IN  /\ pos \in DOMAIN pieces =>
                    last'.ret /\ last'.piece = pieces[pos]
              /\ pos \notin DOMAIN pieces =>
                    ~last'.ret /\ last'.piece = NoPiece
              /\ DOMAIN pieces' = DOMAIN pieces
              /\ UNCHANGED <<config, pieces, captures, interactions>>]_vars

\* at has returned null for a square of the board that a piece has left.
C17_Witness ==
    /\ last.op = "at" /\ ~last.ret
    /\ Valid(last.source)
    /\ last.source \notin DOMAIN pieces
    /\ last.source \in DOMAIN config.initialLayout

---------------------------------------------------------------------------
(* addCapturable and removeCapturable *)

\* Every entry is under the node of a piece that stands on that node's
\* square now.
EntriesUnderPresentPieces ==
    \A e \in BagToSet(captures) : e[1] \in DOMAIN pieces /\ pieces[e[1]].p = e[1]

\* C19: addCapturable(tile) called by a piece adds one entry of that piece
\* with the tile when the tile is valid, and nothing otherwise;
\* removeCapturable(tile) takes away one entry of that piece with the tile
\* when there is one, and nothing otherwise; neither changes the number of
\* any other entry, nor the pieces. In every state an entry is under the
\* node of the piece standing there, and after a successful move or capture
\* no entry is under the node the piece has left, and the only entry under
\* the node it has come to is its own.
C19_CapturableFrame ==
    /\ []EntriesUnderPresentPieces
    /\ [][/\ last'.op \in {"addCapturable", "removeCapturable"} =>
                LET e == <<last'.source, last'.target>>
                    d == IF last'.op = "addCapturable"
                         THEN (IF Valid(last'.target) THEN 1 ELSE 0)
                         ELSE (IF BagIn(e, captures) THEN -1 ELSE 0)
                IN  /\ pieces[last'.source].p = last'.source
                    /\ pieces' = pieces
                    /\ \A x \in BagToSet(captures) \cup BagToSet(captures') \cup {e} :
                          CopiesIn(x, captures') =
                              CopiesIn(x, captures) + (IF x = e THEN d ELSE 0)
          /\ (last'.op \in {"move", "capture"} /\ last'.ret) =>
                \A x \in BagToSet(captures') :
                    /\ x[1] # last'.source
                    /\ x[1] = last'.target =>
                          /\ x[2] = pieces'[last'.target].p
                          /\ CopiesIn(x, captures') = 1]_vars

\* removeCapturable has taken one of two entries of a piece with its square
\* away, on a board on which a piece has moved.
C19_Witness ==
    /\ last.op = "removeCapturable"
    /\ last.source = last.target
    /\ CopiesIn(<<last.source, last.target>>, captures) = 1
    /\ \E k \in DOMAIN pieces :
          k # last.source /\ pieces[k].movenum > 0
                          /\ CopiesIn(<<k, k>>, captures) = 2

---------------------------------------------------------------------------
(* The resource manager *)

\* The characters of the components of a setting's path, one after another:
\* the path as a text.
RECURSIVE TextOf(_)
TextOf(path) == IF path = <<>> THEN <<>> ELSE Head(path) \o TextOf(Tail(path))

\* Every resource is stored under its type and under the key of the request
\* that constructed it, and no two are the same.
ResWellFormed ==
    /\ \A k \in DOMAIN res :
          /\ res[k].type = k[2]
          /\ res[k].made = "from_path" => k[1] = res[k].arg
          /\ res[k].made = "from_config" => k[1] = PathConcat(Nul, res[k].arg[2])
    /\ \A k1, k2 \in DOMAIN res : res[k1].serial = res[k2].serial => k1 = k2

\* The part of C20 about one key: a stored resource stays the same instance
\* under its key for ever; a request for a key that has a resource returns
\* it and constructs none; a request for a key that has none constructs one
\* and stores it under the key.
OneResourcePerKey ==
    /\ \A k \in DOMAIN res : k \in DOMAIN res' /\ res'[k] = res[k]
    /\ last'.op \in {"from_path", "from_config"} =>
          LET k == last'.key
          IN  /\ k[2] = last'.type
              /\ k \in DOMAIN res' /\ last'.returned = res'[k]
              /\ k \in DOMAIN res => res' = res
              /\ k \notin DOMAIN res =>
                    /\ DOMAIN res' = DOMAIN res \cup {k}
                    /\ \A j \in DOMAIN res : res[j].serial # res'[k].serial
                    /\ last'.returned.made = last'.op

\* The part of C20 about the two functions: a from_path request returns a
\* resource that from_path constructed from its path, and a from_config
\* request one that from_config constructed from its path's setting.
NeverTheOthersEntry ==
    last'.op \in {"from_path", "from_config"} =>
        /\ last'.returned.made = last'.op
        /\ last'.op = "from_path" => last'.returned.arg = last'.arg
        /\ last'.op = "from_config" =>
              last'.returned.arg = <<"setting", last'.arg>>

C20_OnePerKeyAndSharedKeys ==
    /\ []ResWellFormed
    /\ [][/\ OneResourcePerKey
          /\ (last'.op = "from_path" /\ last'.returned.made # last'.op) =>
                last'.arg = PathConcat(Nul, last'.returned.arg[2])
          /\ (last'.op = "from_config" /\ last'.returned.made # last'.op) =>
                last'.returned.arg = PathConcat(Nul, last'.arg)]_vars

\* from_path has returned a resource that from_config constructed, in a
\* build with the glue after each component, where no text of a path of
\* from_config is a key of it.
C20_SharedInEveryBuild ==
    /\ config.pathConcat = "after"
    /\ last.op = "from_path" /\ last.returned.made = "from_config"
    /\ last.arg # TextOf(last.returned.arg[2])

=============================================================================
